---------------------------- MODULE Spec2Model ----------------------------
(***************************************************************************)
(* A model of dfhack-fuzzer.py: the DFInstance supervisor (open, run,      *)
(* __enter__, __exit__), get_commands and check().                         *)
(*                                                                         *)
(* Byte strings are sequences of byte values 0..255; decoded text is a     *)
(* sequence of code points.  Every string operation of the source          *)
(* (decode, replace, split, strip, lower, startswith, in) is computed on   *)
(* these sequences.                                                        *)
(***************************************************************************)
EXTENDS Integers, Sequences, FiniteSets, TLC

(***************************************************************************)
(* String literals of the source, as byte / code point sequences.          *)
(***************************************************************************)
\* b'In call to ::RunCommand: I/O error in receive header.'
SENTINEL == <<73, 110, 32, 99, 97, 108, 108, 32, 116, 111, 32, 58, 58, 82, 117, 110, 67, 111, 109, 109, 97, 110, 100, 58, 32, 73, 47, 79, 32, 101, 114, 114, 111, 114, 32, 105, 110, 32, 114, 101, 99, 101, 105, 118, 101, 32, 104, 101, 97, 100, 101, 114, 46>>
\* '/hack/scripts/'
HackScripts == <<47, 104, 97, 99, 107, 47, 115, 99, 114, 105, 112, 116, 115, 47>>
\* 'plugins:'
PluginsMarker == <<112, 108, 117, 103, 105, 110, 115, 58>>
\* ' - '
DashSep == <<32, 45, 32>>
\* ' UI'
SpaceUI == <<32, 85, 73>>
\* 'cursor'
Cursor == <<99, 117, 114, 115, 111, 114>>
\* '  '
TwoSpaces == <<32, 32>>
\* ' '
Space == <<32>>
\* '\r\n'
CRLF == <<13, 10>>
\* '\n'
LF == <<10>>
\* ('devel/', 'ssense', 'stonesense')
Denylist == << <<100, 101, 118, 101, 108, 47>>,
               <<115, 115, 101, 110, 115, 101>>,
               <<115, 116, 111, 110, 101, 115, 101, 110, 115, 101>> >>
\* 'ls', '-a'
ArgsLs == << <<108, 115>>, <<45, 97>> >>
\* 'load-save', 'region1'
ArgsLoadSave == << <<108, 111, 97, 100, 45, 115, 97, 118, 101>>,
                   <<114, 101, 103, 105, 111, 110, 49>> >>
\* 'die'
ArgsDie == << <<100, 105, 101>> >>

(***************************************************************************)
(* Python's str and bytes operations.                                      *)
(***************************************************************************)
Drop(s, n) == SubSeq(s, n + 1, Len(s))

Take(s, n) == SubSeq(s, 1, n)

\* s.startswith(p)
StartsWith(s, p) == Len(p) <= Len(s) /\ Take(s, Len(p)) = p

\* s.find(p) + 1: the first position where p occurs in s, 0 when it does not
Find(s, p) ==
    LET hits == {i \in 1..(Len(s) - Len(p) + 1) : SubSeq(s, i, i + Len(p) - 1) = p}
    IN  IF hits = {} THEN 0 ELSE CHOOSE i \in hits : \A j \in hits : i <= j

\* p in s
Contains(s, p) == Find(s, p) > 0

\* s.split(sep), sep not empty
RECURSIVE Split(_, _)
Split(s, sep) ==
    LET i == Find(s, sep)
    IN  IF i = 0 THEN <<s>>
        ELSE <<Take(s, i - 1)>> \o Split(Drop(s, i - 1 + Len(sep)), sep)

\* s.replace(old, new), old not empty
RECURSIVE Replace(_, _, _)
Replace(s, old, new) ==
    LET i == Find(s, old)
    IN  IF i = 0 THEN s
        ELSE Take(s, i - 1) \o new \o Replace(Drop(s, i - 1 + Len(old)), old, new)

\* the code points c with chr(c).isspace()
Whitespace ==
    (9..13) \cup (28..32) \cup {133, 160, 5760} \cup (8192..8202)
        \cup {8232, 8233, 8239, 8287, 12288}

\* s.lstrip()
RECURSIVE LStrip(_)
LStrip(s) ==
    IF s # <<>> /\ s[1] \in Whitespace THEN LStrip(Drop(s, 1)) ELSE s

\* s.rstrip()
RECURSIVE RStrip(_)
RStrip(s) ==
    IF s # <<>> /\ s[Len(s)] \in Whitespace THEN RStrip(Take(s, Len(s) - 1)) ELSE s

\* s.strip()
Strip(s) == LStrip(RStrip(s))

\* s.lower(), for text of code points below 256 (A-Z and the Latin-1 capitals)
Lower(s) ==
    [i \in 1..Len(s) |->
        IF s[i] \in (65..90) \cup (192..214) \cup (216..222) THEN s[i] + 32 ELSE s[i]]

IsCont(b) == b \in 128..191

\* the length of the UTF-8 sequence a lead byte c opens, 0 when c opens none
Width(c) ==
    IF c < 128 THEN 1
    ELSE IF c \in 194..223 THEN 2
    ELSE IF c \in 224..239 THEN 3
    ELSE IF c \in 240..244 THEN 4
    ELSE 0

\* the second bytes allowed after lead byte c (no overlong forms, no
\* surrogates, nothing above U+10FFFF)
SecondBytes(c) ==
    IF c = 224 THEN 160..191
    ELSE IF c = 237 THEN 128..159
    ELSE IF c = 240 THEN 144..191
    ELSE IF c = 244 THEN 128..143
    ELSE 128..191

\* the positions of b, in order, that hold no continuation byte
Leads(b) == SelectSeq([i \in 1..Len(b) |-> i], LAMBDA i : ~IsCont(b[i]))

\* the sequence opened at position i is complete and well formed, and a new
\* sequence (or the end) follows it
WellFormed(b, i) ==
    LET w == Width(b[i])
    IN  /\ w > 0
        /\ i + w - 1 <= Len(b)
        /\ \A j \in (i + 1)..(i + w - 1) : IsCont(b[j])
        /\ w > 1 => b[i + 1] \in SecondBytes(b[i])
        /\ i + w <= Len(b) => ~IsCont(b[i + w])

\* the code point of the sequence opened at position i
CodePoint(b, i) ==
    LET w == Width(b[i])
    IN  IF w = 1 THEN b[i]
        ELSE IF w = 2 THEN (b[i] - 192) * 64 + (b[i + 1] - 128)
        ELSE IF w = 3 THEN (b[i] - 224) * 4096 + (b[i + 1] - 128) * 64 + (b[i + 2] - 128)
        ELSE (b[i] - 240) * 262144 + (b[i + 1] - 128) * 4096
                 + (b[i + 2] - 128) * 64 + (b[i + 3] - 128)

\* b.decode('utf-8'); ok is FALSE where it raises UnicodeDecodeError
Decode(b) ==
    LET leads == Leads(b)
    IN  IF /\ Len(b) > 0 => ~IsCont(b[1])
           /\ \A k \in 1..Len(leads) : WellFormed(b, leads[k])
        THEN [ok |-> TRUE, text |-> [k \in 1..Len(leads) |-> CodePoint(b, leads[k])]]
        ELSE [ok |-> FALSE, text |-> <<>>]

(***************************************************************************)
(* check(): the decoding and the categorisation of one result.             *)
(***************************************************************************)
Categories == {"ok", "script_traceback", "crashed_DF", "wrong_UI_context", "failed"}

\* out = proc.stdout.decode('utf-8').replace('\r\n', '\n')
Normalise(text) == Replace(text, CRLF, LF)

\* a variant of FirstLine: the first line is not stripped
FirstLine_NoStrip(out) == Split(out, LF)[1]

\* firstline = out.split('\n')[0].strip()
FirstLine(out) == Strip(Split(out, LF)[1])

\* a variant of Classify: the sentinel is tested before the exit code
Classify_SentinelFirst(returncode, out, cmd) ==
    IF StartsWith(out, SENTINEL) THEN "crashed_DF"
    ELSE IF returncode = 0 THEN "ok"
    ELSE IF Contains(out, HackScripts \o cmd) THEN "script_traceback"
    ELSE IF Contains(FirstLine(out), SpaceUI)
            \/ Contains(Lower(FirstLine(out)), Cursor) THEN "wrong_UI_context"
    ELSE "failed"

\* a variant of Classify: the sentinel branch is missing
Classify_NoCrashBranch(returncode, out, cmd) ==
    IF returncode = 0 THEN "ok"
    ELSE IF Contains(out, HackScripts \o cmd) THEN "script_traceback"
    ELSE IF Contains(FirstLine(out), SpaceUI)
            \/ Contains(Lower(FirstLine(out)), Cursor) THEN "wrong_UI_context"
    ELSE "failed"

\* a variant of Classify: the sentinel is looked for anywhere in the output
Classify_SentinelAnywhere(returncode, out, cmd) ==
    IF returncode = 0 THEN "ok"
    ELSE IF Contains(out, HackScripts \o cmd) THEN "script_traceback"
    ELSE IF Contains(out, SENTINEL) THEN "crashed_DF"
    ELSE IF Contains(FirstLine(out), SpaceUI)
            \/ Contains(Lower(FirstLine(out)), Cursor) THEN "wrong_UI_context"
    ELSE "failed"

\* the if/elif chain of check()
Classify(returncode, out, cmd) ==
    IF returncode = 0 THEN "ok"
    ELSE IF Contains(out, HackScripts \o cmd) THEN "script_traceback"
    ELSE IF StartsWith(out, SENTINEL) THEN "crashed_DF"
    ELSE IF Contains(FirstLine(out), SpaceUI)
            \/ Contains(Lower(FirstLine(out)), Cursor) THEN "wrong_UI_context"
    ELSE "failed"

\* lines 142-155 of check() for one result: the category, or the exception
\* that decode() raises
Categorise(returncode, stdout, cmd) ==
    LET d == Decode(stdout)
    IN  IF d.ok THEN Classify(returncode, Normalise(d.text), cmd)
        ELSE "UnicodeDecodeError"

\* a variant of Record: the chain after the exit code test is a second if
\* statement, so a result with exit code 0 falls through to its else branch
Record_FallThrough(res, category, cmd, out) ==
    LET put(r, c) ==
            LET bucket == IF c \in DOMAIN r THEN r[c] ELSE <<>>
                new == [k \in (DOMAIN bucket) \cup {cmd} |-> IF k = cmd THEN out ELSE bucket[k]]
            IN  [x \in (DOMAIN r) \cup {c} |-> IF x = c THEN new ELSE r[x]]
    IN  IF category = "ok" THEN put(put(res, "ok"), "failed") ELSE put(res, category)

\* results[category][cmd] = out, results being a defaultdict(dict)
Record(res, category, cmd, out) ==
    LET bucket == IF category \in DOMAIN res THEN res[category] ELSE <<>>
        put == [k \in (DOMAIN bucket) \cup {cmd} |-> IF k = cmd THEN out ELSE bucket[k]]
    IN  [c \in (DOMAIN res) \cup {category} |-> IF c = category THEN put ELSE res[c]]

(***************************************************************************)
(* get_commands(): the parse of the output of 'ls -a'.                     *)
(***************************************************************************)
\* lines = [line.rstrip() for line in result.stdout.decode('utf-8').split('\n')]
ListingLines(text) ==
    LET raw == Split(text, LF) IN [i \in 1..Len(raw) |-> RStrip(raw[i])]

\* a variant of MarkerIndex: a listing without the marker is read as a
\* listing whose marker is its last line
MarkerIndex_Lenient(lines) ==
    LET hits == {i \in 1..Len(lines) : lines[i] = PluginsMarker}
    IN  IF hits = {} THEN Len(lines) ELSE CHOOSE i \in hits : \A j \in hits : i <= j

\* lines.index('plugins:') + 1, 0 where index() raises ValueError
MarkerIndex(lines) ==
    LET hits == {i \in 1..Len(lines) : lines[i] = PluginsMarker}
    IN  IF hits = {} THEN 0 ELSE CHOOSE i \in hits : \A j \in hits : i <= j

\* line.startswith('  ') and not line[2] == ' '
IsCommandLine(line) == StartsWith(line, TwoSpaces) /\ line[3] # 32

\* a variant of Allowed: the denylisted texts are looked for anywhere in
\* the name
Allowed_Anywhere(c) == ~ \E p \in 1..Len(Denylist) : Contains(c, Denylist[p])

\* not any(c.startswith(p) for p in ('devel/', 'ssense', 'stonesense'))
Allowed(c) == ~ \E p \in 1..Len(Denylist) : StartsWith(c, Denylist[p])

\* the body of get_commands() after the request; exc names the exception
\* raised, "none" when the list is returned
GetCommands(stdout) ==
    LET d == Decode(stdout)
        lines == ListingLines(d.text)
        m == MarkerIndex(lines)
        rest == Drop(lines, m)
        picked == SelectSeq(rest, IsCommandLine)
        commands == [i \in 1..Len(picked) |-> Strip(Split(picked[i], DashSep)[1])]
    IN  IF ~d.ok THEN [exc |-> "UnicodeDecodeError", commands |-> <<>>]
        ELSE IF m = 0 THEN [exc |-> "ValueError", commands |-> <<>>]
        ELSE IF \E i \in 1..Len(rest) : StartsWith(rest[i], TwoSpaces) /\ Len(rest[i]) < 3
        THEN [exc |-> "IndexError", commands |-> <<>>]
        ELSE [exc |-> "none", commands |-> SelectSeq(commands, Allowed)]

(***************************************************************************)
(* DFInstance.  A supervisor state s is [proc, launched, trace]: the       *)
(* tracked handle self._proc, the number of processes launched so far and  *)
(* the history of what the supervisor did.                                 *)
(***************************************************************************)
\* self._proc = None
NoProc == <<>>

\* a subprocess.Popen object; its returncode stays None until poll() or
\* wait() is called, which the source never does
Popen(pid) == <<[pid |-> pid, returncode |-> "None"]>>

\* a subprocess.CompletedProcess
Resp(returncode, stdout) == [returncode |-> returncode, stdout |-> stdout]

NoResp == Resp(0, <<>>)

\* one entry of the history: what happened, the arguments and the answer of
\* a request, the tracked handle at that moment, the calls of open() in progress
Ev(ev, args, resp, proc, depth) ==
    [ev |-> ev, args |-> args, resp |-> resp, proc |-> proc, depth |-> depth]

Log(s, ev, depth) == [s EXCEPT !.trace = Append(@, Ev(ev, <<>>, NoResp, s.proc, depth))]

\* subprocess.run([self._dfhack_run, *commands]) answered resp
Send(s, ev, commands, resp, depth) ==
    [s EXCEPT !.trace = Append(@, Ev(ev, commands, resp, s.proc, depth))]

\* self._proc is None or self._proc.returncode is not None
NeedsLaunch(proc) == proc = NoProc \/ proc[1].returncode # "None"

\* a variant of OpenLive: the settle wait is outside the if statement
OpenLive_Sleep(s, depth) == Log(s, "sleep", depth)

\* a variant of OpenLive: Popen is outside the if statement, so a call of
\* open() that finds a tracked handle starts a process too
OpenLive_Relaunch(s, depth) ==
    Log([s EXCEPT !.proc = Popen(s.launched + 1), !.launched = @ + 1], "launch", depth)

\* open() when a live handle is tracked: nothing happens
OpenLive(s, depth) == s

\* a variant of Settle: the new process is given no time to load the save
Settle_None(s, depth) == s

\* time.sleep(10), after the save was asked for
Settle(s, depth) == Log(s, "sleep", depth)

\* the inputs of one call of run(): whether Popen succeeds, whether the
\* region1 save exists, the host's answer to load-save and its answer to
\* the command
Env(launchOk, save, loadResp, resp) ==
    [launchOk |-> launchOk, save |-> save, loadResp |-> loadResp, resp |-> resp]

RECURSIVE Run(_, _, _, _)
\* DFInstance.open(); depth is the number of calls of open() in progress
Open(s, e, depth) ==
    LET s0 == Log(s, "open", depth) IN
    IF NeedsLaunch(s.proc)
    THEN IF ~e.launchOk
         THEN [s |-> Log(s0, "launch_failed", depth), exc |-> "OSError"]
         ELSE LET s1 == Log([s0 EXCEPT !.proc = Popen(s.launched + 1),
                                       !.launched = @ + 1], "launch", depth)
              IN  IF e.save
                  THEN LET r == Run(s1, ArgsLoadSave, [e EXCEPT !.resp = e.loadResp], depth)
                       IN  IF r.exc # "none" THEN [s |-> r.s, exc |-> r.exc]
                           ELSE [s |-> Log(Settle(r.s, depth), "opened", depth),
                                 exc |-> "none"]
                  ELSE [s |-> Log(Log(s1, "warn", depth), "opened", depth),
                        exc |-> "none"]
    ELSE [s |-> Log(OpenLive(s0, depth), "opened", depth), exc |-> "none"]

\* a variant of Detect: the answer is compared with the sentinel, byte for byte
Detect_Exact(s, stdout, depth) ==
    IF stdout = SENTINEL
    THEN Log([s EXCEPT !.proc = NoProc], "clear", depth)
    ELSE s

\* a variant of Detect: the sentinel is looked for with a line end after it
Detect_WithNewline(s, stdout, depth) ==
    IF StartsWith(stdout, SENTINEL \o LF)
    THEN Log([s EXCEPT !.proc = NoProc], "clear", depth)
    ELSE s

\* if out.stdout.startswith(b'In call to ...'): self._proc = None
Detect(s, stdout, depth) ==
    IF StartsWith(stdout, SENTINEL)
    THEN Log([s EXCEPT !.proc = NoProc], "clear", depth)
    ELSE s

\* DFInstance.run(*commands); depth is the number of calls of open() in progress
Run(s, commands, e, depth) ==
    IF commands = <<>> THEN [s |-> s, exc |-> "AssertionError", out |-> e.resp]
    ELSE LET o == Open(s, e, depth + 1)
         IN  IF o.exc # "none" THEN [s |-> o.s, exc |-> o.exc, out |-> e.resp]
             ELSE [s |-> Detect(Send(o.s, "send", commands, e.resp, depth), e.resp.stdout, depth),
                   exc |-> "none", out |-> e.resp]

\* DFInstance.__exit__(): subprocess.run([self._dfhack_run, 'die'])
Exit(s) == Send(s, "shutdown", ArgsDie, NoResp, 0)

(***************************************************************************)
(* The host's answers.  The host is a black box: every answer below can    *)
(* follow every request.                                                   *)
(***************************************************************************)
\* the most lines a listing holds after its header
MaxLines == 2

\* b'  reveal - y\n', b'  gui/foo - z\n', b'  devel/foo - x\n'
ListingPool ==
    { <<32, 32, 114, 101, 118, 101, 97, 108, 32, 45, 32, 121, 10>>,
      <<32, 32, 103, 117, 105, 47, 102, 111, 111, 32, 45, 32, 122, 10>>,
      <<32, 32, 100, 101, 118, 101, 108, 47, 102, 111, 111, 32, 45, 32, 120, 10>> }

\* b'plugins:\n', b'  help - h\r\nplugins:\r\n', b'  help - h\n' (no marker)
ListingHeaders ==
    { <<112, 108, 117, 103, 105, 110, 115, 58, 10>>,
      <<32, 32, 104, 101, 108, 112, 32, 45, 32, 104, 13, 10, 112, 108, 117, 103, 105, 110, 115, 58, 13, 10>>,
      <<32, 32, 104, 101, 108, 112, 32, 45, 32, 104, 10>> }

RECURSIVE Bodies(_)
\* the concatenations of n lines of the pool
Bodies(n) ==
    IF n = 0 THEN {<<>>}
    ELSE {b \o l : b \in Bodies(n - 1), l \in ListingPool}

\* the answers to 'ls -a': a header and up to MaxLines lines, or bytes that
\* are no UTF-8, or the sentinel
ListingResponses ==
    {Resp(0, h \o b) : h \in ListingHeaders, b \in UNION {Bodies(n) : n \in 0..MaxLines}}
        \cup {Resp(1, <<255>>), Resp(1, SENTINEL)}

\* the answers to 'load-save region1'
LoadResponses == {Resp(0, <<>>), Resp(1, SENTINEL)}

\* the answers to a fuzzed command cmd:
\*   b'', the sentinel,
\*   the sentinel + b' /hack/scripts/' + cmd,
\*   b'/hack/scripts/' + cmd + b'.lua:12: error\n',
\*   b'Error: invalid UI state\n', b'unknown command\r\n', b'\xff',
\*   the sentinel + b'\xff'
FuzzOutputs(cmd) ==
    { <<>>, SENTINEL,
      SENTINEL \o Space \o HackScripts \o cmd,
      HackScripts \o cmd \o <<46, 108, 117, 97, 58, 49, 50, 58, 32, 101, 114, 114, 111, 114, 10>>,
      <<69, 114, 114, 111, 114, 58, 32, 105, 110, 118, 97, 108, 105, 100, 32, 85, 73, 32, 115, 116, 97, 116, 101, 10>>,
      <<117, 110, 107, 110, 111, 119, 110, 32, 99, 111, 109, 109, 97, 110, 100, 13, 10>>,
      <<255>>, SENTINEL \o <<255>> }

\* exit code 1 with each of them, exit code 0 with b'' and with the sentinel
FuzzResponses(cmd) ==
    {Resp(1, o) : o \in FuzzOutputs(cmd)} \cup {Resp(0, <<>>), Resp(0, SENTINEL)}

(***************************************************************************)
(* check(): the state of one run.                                          *)
(***************************************************************************)
VARIABLES
    pc,         \* the position of check(): start, enumerate, loop, returned, raised
    session,    \* the with block: none, open, closed
    proc,       \* DFInstance._proc
    launched,   \* the number of processes launched
    trace,      \* what the supervisor did, in order
    save,       \* whether data/save/region1 exists
    cmds,       \* the list get_commands() returned
    idx,        \* the position of the for loop in cmds
    last,       \* cmd and proc of the latest iteration of the loop
    results,    \* the defaultdict results
    exc,        \* the exception that left check(), "none" when none did
    c_in,       \* the classifier alone: its input (returncode, stdout, cmd)
    c_cat,      \* the classifier alone: its category, or the exception raised
    alive       \* the launched processes that are still running

vars == <<pc, session, proc, launched, trace, save, cmds, idx, last, results, exc, c_in, c_cat, alive>>

Sup == [proc |-> proc, launched |-> launched, trace |-> trace]

SetSup(s) == proc' = s.proc /\ launched' = s.launched /\ trace' = s.trace

NoResults == [c \in {} |-> <<>>]

NoLast == [cmd |-> <<>>, returncode |-> 0, stdout |-> <<>>]

\* a variant of Raise: the exception propagates and __exit__ is not run
Raise_NoExit(s, kind) ==
    /\ SetSup(s)
    /\ pc' = "raised"
    /\ exc' = kind
    /\ session' = "closed"

\* an exception leaves the with block: __exit__ runs, then it propagates
Raise(s, kind) ==
    /\ SetSup(Exit(s))
    /\ pc' = "raised"
    /\ exc' = kind
    /\ session' = "closed"

\* the processes Popen started during the step are running, with those
\* that ran before: nothing in the program stops or awaits a process
Started == alive' = alive \cup ((launched + 1)..launched')

Init ==
    /\ pc = "start"
    /\ session = "none"
    /\ proc = NoProc
    /\ launched = 0
    /\ trace = <<>>
    /\ save \in BOOLEAN
    /\ cmds = <<>>
    /\ idx = 1
    /\ last = NoLast
    /\ results = NoResults
    /\ exc = "none"
    /\ c_in = NoLast
    /\ c_cat = "none"
    /\ alive = {}

\* with DFInstance(glob_pattern) as hack: __init__ (glob.glob(pattern)[0]
\* raises IndexError when nothing matches), then __enter__
Construct ==
    /\ pc = "start"
    /\ \E found \in BOOLEAN :
          IF found
          THEN pc' = "enumerate" /\ session' = "open" /\ exc' = exc
          ELSE pc' = "raised" /\ session' = session /\ exc' = "IndexError"
    /\ UNCHANGED <<proc, launched, trace, save, cmds, idx, last, results, c_in, c_cat, alive>>

\* get_commands(hack), the host answering 'ls -a' with one of listings
EnumerateFrom(listings) ==
    /\ pc = "enumerate"
    /\ \E launchOk \in BOOLEAN, loadResp \in LoadResponses, resp \in listings :
          LET r == Run(Sup, ArgsLs, Env(launchOk, save, loadResp, resp), 0)
              p == GetCommands(r.out.stdout)
          IN  IF r.exc # "none" THEN Raise(r.s, r.exc) /\ cmds' = cmds
              ELSE IF p.exc # "none" THEN Raise(r.s, p.exc) /\ cmds' = cmds
              ELSE /\ SetSup(r.s)
                   /\ cmds' = p.commands
                   /\ pc' = "loop"
                   /\ UNCHANGED <<session, exc>>
    /\ Started
    /\ UNCHANGED <<save, idx, last, results, c_in, c_cat>>

\* get_commands(hack)
Enumerate == EnumerateFrom(ListingResponses)

\* one iteration of the for loop of check()
Fuzz ==
    /\ pc = "loop"
    /\ idx <= Len(cmds)
    /\ \E launchOk \in BOOLEAN, loadResp \in LoadResponses, resp \in FuzzResponses(cmds[idx]) :
          LET cmd == cmds[idx]
              r == Run(Sup, <<cmd>>, Env(launchOk, save, loadResp, resp), 0)
              cat == Categorise(r.out.returncode, r.out.stdout, cmd)
              out == Normalise(Decode(r.out.stdout).text)
          IN  IF r.exc # "none"
              THEN Raise(r.s, r.exc) /\ UNCHANGED <<idx, last, results>>
              ELSE /\ last' = [cmd |-> cmd, returncode |-> r.out.returncode,
                               stdout |-> r.out.stdout]
                   /\ IF cat \notin Categories
                      THEN Raise(r.s, cat) /\ UNCHANGED <<idx, results>>
                      ELSE /\ SetSup(r.s)
                           /\ results' = Record(results, cat, cmd, out)
                           /\ idx' = idx + 1
                           /\ UNCHANGED <<pc, session, exc>>
    /\ Started
    /\ UNCHANGED <<save, cmds, c_in, c_cat>>

\* the loop is exhausted: the with block ends, results is returned
Finish ==
    /\ pc = "loop"
    /\ idx > Len(cmds)
    /\ SetSup(Exit(Sup))
    /\ pc' = "returned"
    /\ session' = "closed"
    /\ UNCHANGED <<save, cmds, idx, last, results, exc, c_in, c_cat, alive>>

Next == Construct \/ Enumerate \/ Fuzz \/ Finish

Spec == Init /\ [][Next]_vars

(***************************************************************************)
(* The run of check() with a host whose processes exit when they choose.   *)
(***************************************************************************)
\* a launched process exits: it crashed, or it obeyed 'die'; the Popen
\* object is not told (nothing calls poll() or wait())
HostExit ==
    /\ \E p \in alive : alive' = alive \ {p}
    /\ UNCHANGED <<pc, session, proc, launched, trace, save, cmds, idx, last, results, exc, c_in, c_cat>>

NextAlive == Next \/ HostExit

SpecAlive == Init /\ [][NextAlive]_vars

(***************************************************************************)
(* The categorisation alone, on a wider set of results.                    *)
(***************************************************************************)
\* first lines: b'', the sentinel, b' ' + the sentinel, the sentinel less its
\* last byte, the sentinel + b' UI', and the lines named below
ClassifyFirstLines ==
    { <<>>, SENTINEL, Space \o SENTINEL, Take(SENTINEL, Len(SENTINEL) - 1),
      SENTINEL \o SpaceUI,
      \* b'Error: invalid UI state'
      <<69, 114, 114, 111, 114, 58, 32, 105, 110, 118, 97, 108, 105, 100, 32, 85, 73, 32, 115, 116, 97, 116, 101>>,
      \* b' UI state invalid'
      <<32, 85, 73, 32, 115, 116, 97, 116, 101, 32, 105, 110, 118, 97, 108, 105, 100>>,
      \* b'UI only'
      <<85, 73, 32, 111, 110, 108, 121>>,
      \* b'state UI'
      <<115, 116, 97, 116, 101, 32, 85, 73>>,
      \* b'No CURSOR set  '
      <<78, 111, 32, 67, 85, 82, 83, 79, 82, 32, 115, 101, 116, 32, 32>>,
      \* b'failed'
      <<102, 97, 105, 108, 101, 100>>,
      \* b'/hack/scripts/reveal.lua:1: bad'
      <<47, 104, 97, 99, 107, 47, 115, 99, 114, 105, 112, 116, 115, 47, 114, 101, 118, 101, 97, 108, 46, 108, 117, 97, 58, 49, 58, 32, 98, 97, 100>>,
      \* b'\xc3\x89rror'
      <<195, 137, 114, 114, 111, 114>>,
      \* b'\xff'
      <<255>>,
      \* b'caf\xc3'
      <<99, 97, 102, 195>> }

\* what follows the first line: b'', b'\n', b'\r\n', and the texts named below
ClassifyTails ==
    { <<>>, LF, CRLF,
      \* b'\ncursor\n'
      <<10, 99, 117, 114, 115, 111, 114, 10>>,
      \* b'\n UI\n'
      <<10, 32, 85, 73, 10>>,
      \* b'\r\n/hack/scripts/gui/foo\r\n'
      <<13, 10, 47, 104, 97, 99, 107, 47, 115, 99, 114, 105, 112, 116, 115, 47, 103, 117, 105, 47, 102, 111, 111, 13, 10>> }

\* 'reveal', 'gui/foo'
ClassifyCommands ==
    { <<114, 101, 118, 101, 97, 108>>, <<103, 117, 105, 47, 102, 111, 111>> }

ClassifyInputs ==
    { [cmd |-> c, returncode |-> rc, stdout |-> f \o t] :
          c \in ClassifyCommands, rc \in {0, 1}, f \in ClassifyFirstLines, t \in ClassifyTails }

InitClassify ==
    /\ pc = "start"
    /\ session = "none"
    /\ proc = NoProc
    /\ launched = 0
    /\ trace = <<>>
    /\ save = FALSE
    /\ cmds = <<>>
    /\ idx = 1
    /\ last = NoLast
    /\ results = NoResults
    /\ exc = "none"
    /\ c_in \in ClassifyInputs
    /\ c_cat = "none"
    /\ alive = {}

\* the categorisation of check() applied to the result c_in
ClassifyStep ==
    /\ c_cat' = Categorise(c_in.returncode, c_in.stdout, c_in.cmd)
    /\ UNCHANGED <<pc, session, proc, launched, trace, save, cmds, idx, last, results, exc, c_in, alive>>

NextClassify == ClassifyStep

SpecClassify == InitClassify /\ [][NextClassify]_vars

(***************************************************************************)
(* Properties of the categorisation (under SpecClassify).                  *)
(***************************************************************************)
\* the decoded, line-ending-normalised text of the result c_in
CText == Replace(Decode(c_in.stdout).text, CRLF, LF)

\* the result c_in has been categorised and its output is valid UTF-8
CDone == c_cat # "none" /\ Decode(c_in.stdout).ok

CIsScript == Contains(CText, HackScripts \o c_in.cmd)

CIsCrash == StartsWith(CText, SENTINEL)

\* the first line of the text, as split() gives it, and stripped
CRawFirst == Split(CText, LF)[1]

CTrimFirst == Strip(CRawFirst)

\* C4: every decodable result gets exactly one of the five categories, the
\* first that matches in the order exit code 0 -> ok, script path in the
\* output -> script_traceback, sentinel prefix -> crashed_DF, context
\* heuristic -> wrong_UI_context, otherwise failed; exit code 0 gives ok
\* whatever the output is.
C4_FirstMatch ==
    CDone =>
        /\ c_cat \in Categories
        /\ c_in.returncode = 0 => c_cat = "ok"
        /\ c_in.returncode # 0 /\ CIsScript => c_cat = "script_traceback"
        /\ c_in.returncode # 0 /\ ~CIsScript /\ CIsCrash => c_cat = "crashed_DF"
        /\ c_in.returncode # 0 /\ ~CIsScript /\ ~CIsCrash =>
               c_cat = IF Contains(CTrimFirst, SpaceUI)
                          \/ Contains(Lower(CTrimFirst), Cursor)
                       THEN "wrong_UI_context" ELSE "failed"

\* exit code 0 with an output that starts with the sentinel was categorised ok
C4_Witness ==
    CDone /\ c_in.returncode = 0 /\ CIsCrash /\ c_cat = "ok"

\* the case C5 is about: a failure with neither script path nor sentinel
C5_Case == CDone /\ c_in.returncode # 0 /\ ~CIsScript /\ ~CIsCrash

\* C5 as amended: such a result is wrong_UI_context exactly when the trimmed
\* first line contains 'cursor' case-insensitively or the trimmed first line
\* contains ' UI', and failed otherwise.
C5_TrimmedFirstLine ==
    C5_Case =>
        /\ c_cat = "wrong_UI_context" <=>
               (Contains(Lower(CTrimFirst), Cursor) \/ Contains(CTrimFirst, SpaceUI))
        /\ c_cat = "failed" <=>
               ~(Contains(Lower(CTrimFirst), Cursor) \/ Contains(CTrimFirst, SpaceUI))

\* a first line that holds ' UI' only before stripping was categorised failed
C5_Witness ==
    /\ C5_Case
    /\ Contains(CRawFirst, SpaceUI) /\ ~Contains(CTrimFirst, SpaceUI)
    /\ c_cat = "failed"

\* C5 as stated: such a result is wrong_UI_context exactly when the trimmed
\* first line contains 'cursor' case-insensitively or the untrimmed first
\* line contains ' UI'.
C5_UntrimmedFirstLine ==
    C5_Case =>
        (c_cat = "wrong_UI_context" <=>
            (Contains(Lower(CTrimFirst), Cursor) \/ Contains(CRawFirst, SpaceUI)))

(***************************************************************************)
(* Properties of a run of check() (under Spec).                            *)
(***************************************************************************)
Range(seq) == {seq[i] : i \in 1..Len(seq)}

NoDuplicates(seq) == \A i, j \in 1..Len(seq) : i # j => seq[i] # seq[j]

\* the categories under which cmd is a key of res
BucketsOf(res, cmd) == {c \in DOMAIN res : cmd \in DOMAIN res[c]}

\* the keys of all buckets of res
Keys(res) == UNION {DOMAIN res[c] : c \in DOMAIN res}

\* the requests run() sent for the caller of run() itself (not for open())
TopSends == SelectSeq(trace, LAMBDA e : e.ev = "send" /\ e.depth = 0)

\* the argument lists of the requests sent for the loop of check(): all of
\* TopSends but the first, which is 'ls -a'
FuzzSends == [i \in 1..(Len(TopSends) - 1) |-> TopSends[i + 1].args]

\* the loop has received an answer, and run() cleared the handle because of it
LastCleared ==
    /\ last # NoLast
    /\ \E i \in 1..(Len(trace) - 1) :
          /\ trace[i].ev = "send" /\ trace[i].depth = 0
          /\ \A j \in (i + 1)..Len(trace) : ~(trace[j].ev = "send" /\ trace[j].depth = 0)
          /\ trace[i + 1].ev = "clear"

\* the text check() stores for the latest answer
LastOut == Replace(Decode(last.stdout).text, CRLF, LF)

\* the latest command is stored under category c with the latest output
LastIn(c) ==
    c \in DOMAIN results /\ last.cmd \in DOMAIN results[c] /\ results[c][last.cmd] = LastOut

\* C1: when check() returns and the command list has no duplicates, every
\* command is a key of exactly one bucket and the keys of all buckets are
\* exactly the commands.
C1_Partition ==
    (pc = "returned" /\ NoDuplicates(cmds)) =>
        /\ \A i \in 1..Len(cmds) : Cardinality(BucketsOf(results, cmds[i])) = 1
        /\ Keys(results) = Range(cmds)

\* check() returned a report of two different commands in two buckets
C1_Witness ==
    /\ pc = "returned" /\ NoDuplicates(cmds) /\ Len(cmds) = 2
    /\ Cardinality(DOMAIN results) = 2
    /\ Keys(results) = Range(cmds)

\* C2: after a handle was cleared, run() sends no command of its caller
\* before a process was launched and, when the save exists, load-save was
\* sent and answered without the sentinel.
C2_NoSendWhileDead ==
    \A i, j \in 1..Len(trace) :
        (i < j /\ trace[i].ev = "clear" /\ trace[j].ev = "send" /\ trace[j].depth = 0) =>
            \E k \in (i + 1)..(j - 1) :
                /\ trace[k].ev = "launch"
                /\ save => \E m \in (k + 1)..(j - 1) :
                              /\ trace[m].ev = "send"
                              /\ trace[m].args = ArgsLoadSave
                              /\ ~StartsWith(trace[m].resp.stdout, SENTINEL)

\* C3 as stated: when run() cleared the handle because of the answer to a
\* fuzzed command, the command is recorded under crashed_DF.
C3_AlwaysCrashed == LastCleared => LastIn("crashed_DF")

\* C3 as amended: when run() cleared the handle because of the answer to a
\* fuzzed command, the command is recorded under ok if the exit code is 0,
\* else under script_traceback if the output contains '/hack/scripts/' + cmd,
\* else under crashed_DF; an answer that is no UTF-8 leaves check() with
\* UnicodeDecodeError.
C3_CrashedUnlessEarlierMatch ==
    LastCleared =>
        IF ~Decode(last.stdout).ok THEN pc = "raised" /\ exc = "UnicodeDecodeError"
        ELSE IF last.returncode = 0 THEN LastIn("ok")
        ELSE IF Contains(LastOut, HackScripts \o last.cmd) THEN LastIn("script_traceback")
        ELSE LastIn("crashed_DF")

\* a detected death with a non-zero exit code was recorded under crashed_DF
C3_Witness ==
    LastCleared /\ last.returncode # 0 /\ LastIn("crashed_DF")

\* C6: every answer to a fuzzed command is recorded under some category,
\* and no UnicodeDecodeError leaves check().
C6_EveryAnswerRecorded ==
    last # NoLast =>
        /\ BucketsOf(results, last.cmd) # {}
        /\ exc \in {"none", "OSError"}

\* C7: after a request of run() answered with the sentinel the handle is
\* cleared; the next call of run() finds it cleared, launches a new process
\* and, when the save exists, sends load-save before its own command; the
\* requests of the loop follow the command list position by position, so no
\* command is sent again.
C7_RelaunchOnNextRun ==
    /\ \A i \in 1..Len(trace) :
          (trace[i].ev = "send" /\ StartsWith(trace[i].resp.stdout, SENTINEL)) =>
              /\ i < Len(trace) /\ trace[i + 1].ev = "clear" /\ trace[i + 1].proc = NoProc
              /\ \A j \in (i + 1)..Len(trace) :
                    ( /\ trace[j].ev = "open" /\ trace[j].depth = 1
                      /\ \A k \in (i + 1)..(j - 1) : ~(trace[k].ev = "open" /\ trace[k].depth = 1) )
                    => /\ trace[j].proc = NoProc
                       /\ j < Len(trace)
                       /\ trace[j + 1].ev \in {"launch", "launch_failed"}
                       /\ trace[j + 1].ev = "launch" =>
                              /\ trace[j + 1].proc # NoProc
                              /\ \A k \in 1..j : trace[k].proc # trace[j + 1].proc
                              /\ save => /\ j + 4 <= Len(trace)
                                         /\ trace[j + 4].ev = "send"
                                         /\ trace[j + 4].args = ArgsLoadSave
                              /\ \A k \in (j + 2)..Len(trace) :
                                     (trace[k].ev = "send" /\ trace[k].depth = 0) =>
                                         (save => k > j + 4)
    /\ \A k \in 1..Len(FuzzSends) : k <= Len(cmds) /\ FuzzSends[k] = <<cmds[k]>>

\* a fuzzed command was answered with the sentinel and the next command was
\* sent after a launch
C7_Witness ==
    \E i, j, k \in 1..Len(trace) :
        /\ i < j /\ j < k
        /\ trace[i].ev = "send" /\ trace[i].depth = 0 /\ trace[i].args # ArgsLs
        /\ StartsWith(trace[i].resp.stdout, SENTINEL)
        /\ trace[j].ev = "launch"
        /\ trace[k].ev = "send" /\ trace[k].depth = 0

\* the number of 'die' requests sent so far
DieCount == Cardinality({i \in 1..Len(trace) : trace[i].args = ArgsDie})

\* C8: no 'die' is sent while the session is open; once the with block is
\* left, on any path, exactly one 'die' was sent and it is the last request;
\* check() ends only with the session closed (or never opened, when
\* DFInstance() itself failed).
C8_ShutdownOnce ==
    /\ session \in {"none", "open"} => DieCount = 0
    /\ session = "closed" =>
           /\ DieCount = 1
           /\ trace[Len(trace)].ev = "shutdown" /\ trace[Len(trace)].args = ArgsDie
    /\ pc \in {"returned", "raised"} =>
           session = "closed" \/ (session = "none" /\ exc = "IndexError")
    /\ pc \in {"enumerate", "loop"} => session = "open"

\* an exception raised inside the loop ended a session with one 'die'
C8_Witness ==
    /\ pc = "raised" /\ exc = "UnicodeDecodeError" /\ last # NoLast
    /\ session = "closed" /\ DieCount = 1

\* C9: a call of open() that finds a tracked handle returns at once: the
\* next entry of the history is its return, with the handle unchanged, and
\* no launch, load-save or wait comes between.
C9_OpenLiveNoOp ==
    \A i \in 1..Len(trace) :
        (trace[i].ev = "open" /\ trace[i].proc # NoProc) =>
            /\ i < Len(trace)
            /\ trace[i + 1].ev = "opened"
            /\ trace[i + 1].depth = trace[i].depth
            /\ trace[i + 1].proc = trace[i].proc

\* open() was called with a tracked handle both by run() and inside open()
C9_Witness ==
    \E i, j \in 1..Len(trace) :
        /\ trace[i].ev = "open" /\ trace[i].proc # NoProc /\ trace[i].depth = 1
        /\ trace[j].ev = "open" /\ trace[j].proc # NoProc /\ trace[j].depth = 2

\* C10: when check() ends for another reason than a failed launch, the
\* requests of the loop were the commands of the list, each once, in order,
\* each with its name as only argument.
C10_EveryCommandOnce ==
    (pc \in {"returned", "raised"} /\ exc # "OSError") =>
        FuzzSends = [i \in 1..Len(cmds) |-> <<cmds[i]>>]

(***************************************************************************)
(* Properties of the enumeration.                                          *)
(***************************************************************************)
\* the bytes the host answered to 'ls -a'
LsOut == TopSends[1].resp.stdout

\* no line of the text is 'plugins:' once its trailing whitespace is removed
NoMarkerLine(text) ==
    \A l \in Range(Split(text, LF)) : RStrip(l) # PluginsMarker

\* C11: when the answer to 'ls -a' is valid UTF-8 and none of its lines is
\* 'plugins:' (trailing whitespace aside), get_commands() ends with a
\* ValueError: no list is returned, no command is fuzzed, and check() ends
\* with that exception, returning no report.
C11_NoMarkerRaises ==
    LET top == TopSends
        d == Decode(top[1].resp.stdout)
    IN  (top # <<>> /\ d.ok /\ NoMarkerLine(d.text)) =>
            /\ pc = "raised"
            /\ exc = "ValueError"
            /\ cmds = <<>>
            /\ Len(top) = 1
            /\ results = NoResults

\* a listing of command lines without the marker ended check()
C11_Witness ==
    /\ TopSends # <<>>
    /\ Decode(LsOut).ok
    /\ NoMarkerLine(Decode(LsOut).text)
    /\ \E l \in Range(Split(Decode(LsOut).text, LF)) : StartsWith(l, TwoSpaces) /\ Len(l) > 11
    /\ pc = "raised"
    /\ exc = "ValueError"

(***************************************************************************)
(* The enumeration alone, on a wider set of listings.                      *)
(***************************************************************************)
\* the most lines a wide listing holds after its header
MaxParseLines == 3

\* b'  reveal - y\n', b'  devel/foo - x\n', b'  stonesensei - z\n', b'  my-ssense - q\n', b'   sub - w\n',
\* b'  gui/foo\r\n', b' one - v\n', b'  a - b - c\n', b'  \tt - u\n', b'plugins:\n'
ParsePool ==
    { <<32, 32, 114, 101, 118, 101, 97, 108, 32, 45, 32, 121, 10>>,
      <<32, 32, 100, 101, 118, 101, 108, 47, 102, 111, 111, 32, 45, 32, 120, 10>>,
      <<32, 32, 115, 116, 111, 110, 101, 115, 101, 110, 115, 101, 105, 32, 45, 32, 122, 10>>,
      <<32, 32, 109, 121, 45, 115, 115, 101, 110, 115, 101, 32, 45, 32, 113, 10>>,
      <<32, 32, 32, 115, 117, 98, 32, 45, 32, 119, 10>>,
      <<32, 32, 103, 117, 105, 47, 102, 111, 111, 13, 10>>,
      <<32, 111, 110, 101, 32, 45, 32, 118, 10>>,
      <<32, 32, 97, 32, 45, 32, 98, 32, 45, 32, 99, 10>>,
      <<32, 32, 9, 116, 32, 45, 32, 117, 10>>,
      <<112, 108, 117, 103, 105, 110, 115, 58, 10>> }

\* b'plugins:\n', b'  help - h\nplugins:  \r\n',
\* b'  help - h\n' (no marker)
ParseHeaders ==
    { <<112, 108, 117, 103, 105, 110, 115, 58, 10>>,
      <<32, 32, 104, 101, 108, 112, 32, 45, 32, 104, 10, 112, 108, 117, 103, 105, 110, 115, 58, 32, 32, 13, 10>>,
      <<32, 32, 104, 101, 108, 112, 32, 45, 32, 104, 10>> }

RECURSIVE ParseBodies(_)
\* the concatenations of n lines of the wide pool
ParseBodies(n) ==
    IF n = 0 THEN {<<>>}
    ELSE {b \o l : b \in ParseBodies(n - 1), l \in ParsePool}

\* the answers to 'ls -a': a header and up to MaxParseLines lines
ParseResponses ==
    {Resp(0, h \o b) : h \in ParseHeaders, b \in UNION {ParseBodies(n) : n \in 0..MaxParseLines}}

\* get_commands(hack) on the wide listings
EnumerateWide == EnumerateFrom(ParseResponses)

NextParse == Construct \/ EnumerateWide

SpecParse == Init /\ [][NextParse]_vars

\* 'my-ssense'
MySsense == <<109, 121, 45, 115, 115, 101, 110, 115, 101>>

\* the right-stripped lines of the answer to 'ls -a'
LsLines ==
    LET raw == Split(Decode(LsOut).text, LF) IN [i \in 1..Len(raw) |-> RStrip(raw[i])]

\* the position of the first line 'plugins:' of lines, 0 when there is none
MarkerOf(lines) ==
    IF \E i \in 1..Len(lines) : lines[i] = PluginsMarker
    THEN CHOOSE i \in 1..Len(lines) :
            /\ lines[i] = PluginsMarker
            /\ \A j \in 1..(i - 1) : lines[j] # PluginsMarker
    ELSE 0

\* the line begins with two spaces and a character that is no space
TwoSpaceIndented(l) == Len(l) >= 3 /\ l[1] = 32 /\ l[2] = 32 /\ l[3] # 32

\* the text of the line before its first ' - ', stripped
NameOf(l) ==
    LET k == Find(l, DashSep) IN Strip(IF k = 0 THEN l ELSE SubSeq(l, 1, k - 1))

\* the name begins with a denylisted prefix
Denied(n) ==
    \E p \in Range(Denylist) : Len(n) >= Len(p) /\ SubSeq(n, 1, Len(p)) = p

\* the positions of the lines of lines, after position m, whose names the
\* list must hold
KeptOf(lines, m) ==
    {i \in (m + 1)..Len(lines) :
        TwoSpaceIndented(lines[i]) /\ ~Denied(NameOf(lines[i]))}

\* C12: when the answer to 'ls -a' is valid UTF-8 and has a line
\* 'plugins:', get_commands() returns the names (the text before the first
\* ' - ', stripped) of the lines after the first such line that begin with
\* exactly two spaces, less the names that begin with 'devel/', 'ssense' or
\* 'stonesense', in the order of the listing: the k-th name returned is the
\* name of the k-th such line.  Lines before the marker, lines indented by
\* one space or by three, and names that hold a denylisted text elsewhere
\* than at their start are treated accordingly.
C12_ListedNamesInOrder ==
    (TopSends # <<>> /\ Decode(LsOut).ok) =>
        LET lines == LsLines
            m == MarkerOf(lines)
            kept == KeptOf(lines, m)
        IN  m # 0 =>
              /\ pc = "loop"
              /\ Len(cmds) = Cardinality(kept)
              /\ \A i \in kept :
                    cmds[Cardinality({j \in kept : j <= i})] = NameOf(lines[i])

\* a listing with a command line before the marker and, after it, a name
\* that holds 'ssense' past its start, a denylisted name or a line indented
\* by three spaces, and a second name: the two names were returned in order
C12_Witness ==
    /\ pc = "loop"
    /\ Len(cmds) = 2
    /\ cmds[1] = MySsense
    /\ cmds[2] # MySsense
    /\ LET lines == LsLines
           m == MarkerOf(lines)
       IN  /\ m > 1
           /\ TwoSpaceIndented(lines[1])
           /\ \E i \in (m + 1)..Len(lines) :
                 \/ TwoSpaceIndented(lines[i]) /\ Denied(NameOf(lines[i]))
                 \/ StartsWith(lines[i], TwoSpaces \o Space)

(***************************************************************************)
(* Properties of the sentinel test of check() (under SpecClassify).        *)
(***************************************************************************)
\* the decoded text of the result c_in, its line endings as the host wrote them
CDecoded == Decode(c_in.stdout).text

\* the first characters of text are the whole sentinel
BeginsWithSentinel(text) ==
    /\ Len(text) >= Len(SENTINEL)
    /\ \A k \in 1..Len(SENTINEL) : text[k] = SENTINEL[k]

\* C13: a result is categorised crashed_DF only if its decoded output has
\* the whole sentinel as its first characters; an output in which
\* whitespace comes before the sentinel, or which stops before the
\* sentinel's last character, is never crashed_DF.
C13_CrashedOnlyOnFullPrefix ==
    /\ c_cat = "crashed_DF" => BeginsWithSentinel(CDecoded)
    /\ (CDone /\ CDecoded # <<>> /\ CDecoded[1] \in Whitespace) => c_cat # "crashed_DF"
    /\ (CDone /\ Len(Split(CDecoded, LF)[1]) < Len(SENTINEL)) => c_cat # "crashed_DF"

\* a failure whose output is a space and then the sentinel was categorised,
\* and not as crashed_DF
C13_Witness ==
    /\ CDone
    /\ c_in.returncode # 0
    /\ ~CIsScript
    /\ CDecoded # <<>> /\ CDecoded[1] = 32
    /\ BeginsWithSentinel(Drop(CDecoded, 1))
    /\ c_cat \in {"failed", "wrong_UI_context"}

(***************************************************************************)
(* Properties of the whole run, continued.                                 *)
(***************************************************************************)
\* C14: in the report check() returns, every command of the list, repeated
\* or not, is a key of exactly one bucket.
C14_OneBucketPerName ==
    pc = "returned" =>
        \A c \in Range(cmds) : Cardinality(BucketsOf(results, c)) = 1

\* the answer to the latest fuzzed command reached check()
LastReturned ==
    LET top == TopSends
    IN  Len(top) >= 2 =>
            /\ last.cmd = top[Len(top)].args[1]
            /\ last.stdout = top[Len(top)].resp.stdout
            /\ last.returncode = top[Len(top)].resp.returncode

\* C15: run() clears the handle exactly when the bytes of the answer start
\* with the sentinel, bytes after the sentinel or not; any other answer
\* leaves the handle as it was; in every case the answer is returned.
C15_ClearedIffSentinelPrefix ==
    /\ \A i \in 1..Len(trace) :
          trace[i].ev = "send" =>
              /\ StartsWith(trace[i].resp.stdout, SENTINEL)
                    <=> (i < Len(trace) /\ trace[i + 1].ev = "clear" /\ trace[i + 1].proc = NoProc)
              /\ (~StartsWith(trace[i].resp.stdout, SENTINEL) /\ i < Len(trace))
                    => trace[i + 1].proc = trace[i].proc
    /\ LastReturned

\* C15 as stated: run() clears the handle exactly when the answer is the
\* sentinel byte for byte.
C15_ClearedIffExactSentinel ==
    \A i \in 1..Len(trace) :
        trace[i].ev = "send" =>
            (trace[i].resp.stdout = SENTINEL
                <=> (i < Len(trace) /\ trace[i + 1].ev = "clear"))

\* a fuzzed command was answered with the sentinel and more bytes, the
\* handle was cleared and the answer reached check()
C15_Witness ==
    /\ Len(TopSends) >= 2
    /\ StartsWith(last.stdout, SENTINEL)
    /\ Len(last.stdout) > Len(SENTINEL)
    /\ LastCleared
    /\ proc = NoProc

\* C16 (under SpecAlive): at every point at most one of the processes the
\* supervisor launched is running, so no process is launched while an
\* earlier one still runs.
C16_AtMostOneAlive == Cardinality(alive) <= 1

\* the entry of the history at position i is a request for args
IsSend(i, args) == trace[i].ev = "send" /\ trace[i].args = args

\* C17: every launch is followed, when the region1 save exists, by one
\* load-save request and no other, then by the settle wait, then by the
\* command whose call of run() caused the launch; when the save does not
\* exist no load-save is ever sent, nothing is waited for, and the command
\* is the first request after the launch.
C17_LoadSaveThenSettleThenCommand ==
    \A i \in 1..Len(trace) :
        trace[i].ev = "launch" =>
            IF save
            THEN LET c == IF i + 4 <= Len(trace) /\ trace[i + 4].ev = "clear" THEN 1 ELSE 0
                     n == i + 6 + c
                 IN  /\ n <= Len(trace)
                     /\ IsSend(i + 3, ArgsLoadSave)
                     /\ trace[i + 4 + c].ev = "sleep"
                     /\ trace[n].ev = "send" /\ trace[n].depth = 0
                     /\ trace[n].args # ArgsLoadSave
                     /\ \A k \in (i + 1)..(n - 1) :
                           /\ trace[k].ev = "send" => k = i + 3
                           /\ trace[k].ev = "sleep" => k = i + 4 + c
                           /\ trace[k].ev # "launch"
            ELSE /\ i + 3 <= Len(trace)
                 /\ trace[i + 1].ev = "warn"
                 /\ trace[i + 2].ev = "opened"
                 /\ trace[i + 3].ev = "send" /\ trace[i + 3].depth = 0
                 /\ \A k \in 1..Len(trace) :
                       ~IsSend(k, ArgsLoadSave) /\ trace[k].ev # "sleep"

\* with the save: a fuzzed command caused a launch and was sent after
\* load-save and the wait; without it: a fuzzed command caused a launch and
\* was sent next
C17_Witness ==
    \E i \in 1..Len(trace) :
        /\ trace[i].ev = "launch"
        /\ trace[i].proc[1].pid = 2
        /\ IF save
           THEN /\ IsSend(i + 3, ArgsLoadSave)
                /\ trace[i + 4].ev = "sleep"
                /\ trace[i + 6].ev = "send" /\ trace[i + 6].args = <<cmds[1]>>
           ELSE trace[i + 3].ev = "send" /\ trace[i + 3].args = <<cmds[1]>>

\* the positions of the history between the call of open() at position i
\* and its return
CallOf(i) ==
    LET ends == {j \in (i + 1)..Len(trace) :
                    trace[j].depth = trace[i].depth
                    /\ trace[j].ev \in {"opened", "launch_failed"}}
    IN  IF ends = {} THEN i..Len(trace)
        ELSE i..(CHOOSE j \in ends : \A k \in ends : j <= k)

\* C18: every call of open() returns or raises; it launches at most one
\* process; open() is entered at depth one by run() and at depth two by the
\* run('load-save') of a launching open(), never deeper; the call at depth
\* two finds the handle just set and returns at once, whatever the host
\* answers to load-save.
C18_OpenDepthAtMostTwo ==
    \A i \in 1..Len(trace) :
        trace[i].ev = "open" =>
            /\ trace[i].depth \in {1, 2}
            /\ trace[Len(trace)].ev # "open"
            /\ \E j \in CallOf(i) :
                  trace[j].depth = trace[i].depth
                  /\ trace[j].ev \in {"opened", "launch_failed"}
            /\ Cardinality({j \in CallOf(i) : trace[j].ev = "launch"}) <= 1
            /\ trace[i].depth = 2 =>
                  /\ trace[i - 1].ev = "launch"
                  /\ trace[i].proc = trace[i - 1].proc
                  /\ trace[i].proc # NoProc
                  /\ trace[i + 1].ev = "opened"
                  /\ trace[i + 1].depth = 2

\* a launching call of open() sent load-save, was answered with the
\* sentinel, and returned after one nested call
C18_Witness ==
    \E i \in 1..Len(trace) :
        /\ trace[i].ev = "open" /\ trace[i].depth = 1
        /\ i + 7 <= Len(trace)
        /\ trace[i + 1].ev = "launch"
        /\ trace[i + 2].ev = "open" /\ trace[i + 2].depth = 2
        /\ IsSend(i + 4, ArgsLoadSave)
        /\ StartsWith(trace[i + 4].resp.stdout, SENTINEL)
        /\ trace[i + 7].ev = "opened" /\ trace[i + 7].depth = 1
        /\ Cardinality({j \in CallOf(i) : trace[j].ev = "open"}) = 2

\* the positions in the history of the requests of check() for cmd that
\* were answered with a failure whose output check() stores as out
AnswersOf(cmd, out) ==
    {i \in 1..Len(trace) :
        /\ trace[i].ev = "send" /\ trace[i].depth = 0 /\ trace[i].args = <<cmd>>
        /\ trace[i].resp.returncode # 0
        /\ Decode(trace[i].resp.stdout).ok
        /\ Replace(Decode(trace[i].resp.stdout).text, CRLF, LF) = out}

\* the call of run() that follows position i of the history launches a
\* process, or fails to, before it sends anything
RelaunchedAfter(i) ==
    \A j \in (i + 1)..Len(trace) :
        ( /\ trace[j].ev = "open" /\ trace[j].depth = 1
          /\ \A k \in (i + 1)..(j - 1) : trace[k].ev # "open" )
        => /\ j < Len(trace)
           /\ trace[j + 1].ev \in {"launch", "launch_failed"}
           /\ \A k \in (i + 1)..j : trace[k].ev # "send"

\* C19: every command in the crashed_DF bucket was put there for a request
\* whose answer made run() clear the handle, and the call of run() after
\* that request starts with a launch, before any command is sent.
C19_CrashedWasCleared ==
    "crashed_DF" \in DOMAIN results =>
        \A cmd \in DOMAIN results["crashed_DF"] :
            LET answers == AnswersOf(cmd, results["crashed_DF"][cmd])
            IN  /\ answers # {}
                /\ \A i \in answers :
                      /\ i < Len(trace)
                      /\ trace[i + 1].ev = "clear"
                      /\ trace[i + 1].proc = NoProc
                      /\ RelaunchedAfter(i)

\* a command was recorded as crashed_DF and the next command was sent
\* after a launch
C19_Witness ==
    /\ "crashed_DF" \in DOMAIN results
    /\ \E cmd \in DOMAIN results["crashed_DF"] :
          \E i \in AnswersOf(cmd, results["crashed_DF"][cmd]) :
              \E j \in (i + 1)..Len(trace) :
                  /\ trace[j].ev = "launch"
                  /\ \E k \in (j + 1)..Len(trace) :
                        trace[k].ev = "send" /\ trace[k].depth = 0

=============================================================================
